---------------------------- MODULE Spec2Model ----------------------------
(***************************************************************************)
(* Markowitz portfolio optimisation ("Markowitz min risk.py").             *)
(*                                                                         *)
(* One run of main() is the pipeline                                       *)
(*   tickers.sort -> get_price_data -> calculate_returns ->                *)
(*   optimize_portfolio -> report -> plot_efficient_frontier.              *)
(*                                                                         *)
(* Floating point values are modelled as exact extended rationals          *)
(* <<num, den>> in lowest terms with den >= 0: <<0,0>> is NaN and          *)
(* <<1,0>>, <<-1,0>> are +inf, -inf.  np.sqrt is kept symbolic (a value    *)
(* coef * sqrt(rad)).  Tickers are the integers 1..MaxAssets, ordered as   *)
(* their names are ordered lexicographically.                              *)
(***************************************************************************)
EXTENDS Integers, Sequences, FiniteSets, TLC

(* ------------------------------ bounds -------------------------------- *)
\* number of tickers the literal list of main may hold
MaxAssets == 2
\* number of dates the price provider may return
MaxDates == 3
\* adjusted close prices are drawn from 1..MaxPrice
MaxPrice == 2
\* weights handed back by the solver and drawn by the sampler lie on the
\* grid {0, 1/GridDen, ..., 1}
GridDen == 2
\* number of dates of the price histories of the runs that are repeated
HistoryDates == 4
\* number of states of the global random generator
RngMod == 3
\* stands for num_portfolios = 10_000
NumPortfolios == 2

(* ------------------------- program constants -------------------------- *)
\* returns.mean() * 365, returns.cov() * 365
AnnualFactor == 365

(* ------------------------- float arithmetic --------------------------- *)
Sign(n) == IF n > 0 THEN 1 ELSE IF n < 0 THEN -1 ELSE 0

AbsI(n) == IF n < 0 THEN -n ELSE n

RECURSIVE GCD(_, _)
GCD(a, b) == IF b = 0 THEN a ELSE GCD(b, a % b)

\* the float n/d
Norm(n, d) ==
  IF d = 0 THEN <<Sign(n), 0>>
  ELSE LET g == GCD(AbsI(n), AbsI(d))
       IN  <<(Sign(d) * n) \div g, AbsI(d) \div g>>

NaN == <<0, 0>>
Zero == <<0, 1>>
One == <<1, 1>>

IsNaN(x) == x = NaN

IsFinite(x) == x[2] # 0

Add(x, y) ==
  IF IsNaN(x) \/ IsNaN(y) THEN NaN
  ELSE IF x[2] = 0 /\ y[2] = 0 THEN (IF x = y THEN x ELSE NaN)
  ELSE LET g == GCD(x[2], y[2])
       IN  IF g = 0 THEN Norm(x[1] * y[2] + y[1] * x[2], 0)
           ELSE Norm(x[1] * (y[2] \div g) + y[1] * (x[2] \div g),
                     (x[2] \div g) * y[2])

Neg(x) == <<-x[1], x[2]>>

Sub(x, y) == Add(x, Neg(y))

Mul(x, y) ==
  LET g == GCD(AbsI(x[1]), y[2])
      h == GCD(AbsI(y[1]), x[2])
  IN  IF g = 0 \/ h = 0 THEN Norm(x[1] * y[1], x[2] * y[2])
      ELSE Norm((x[1] \div g) * (y[1] \div h), (x[2] \div h) * (y[2] \div g))

Div(x, y) == Mul(x, Norm(y[2], y[1]))

AbsF(x) == <<AbsI(x[1]), x[2]>>

\* x == y on floats: NaN equals nothing
Eq(x, y) == ~IsNaN(x) /\ ~IsNaN(y) /\ x = y

\* x <= y on floats: a comparison with NaN is false
Leq(x, y) ==
  /\ ~IsNaN(x)
  /\ ~IsNaN(y)
  /\ IF x[2] = 0 /\ y[2] = 0 THEN x[1] <= y[1]
     ELSE x[1] * y[2] <= y[1] * x[2]

(* np.sqrt(v), kept exact as coef * sqrt(rad); rad = 1 means a rational *)
Sqrt(v) ==
  IF IsNaN(v) \/ v[1] < 0 THEN [coef |-> NaN, rad |-> One]
  ELSE IF v[1] = 0 \/ v[2] = 0 THEN [coef |-> v, rad |-> One]
  ELSE [coef |-> One, rad |-> v]

\* the float r divided by the root s
DivRoot(r, s) ==
  IF s.rad = One THEN [coef |-> Div(r, s.coef), rad |-> One]
  ELSE [coef |-> Div(r, Mul(s.coef, s.rad)), rad |-> s.rad]

NegRoot(s) == [coef |-> Neg(s.coef), rad |-> s.rad]

\* a == b on roots
EqRoot(a, b) ==
  /\ ~IsNaN(a.coef)
  /\ ~IsNaN(b.coef)
  /\ IF a.rad = b.rad THEN a.coef = b.coef
     ELSE /\ Sign(a.coef[1]) = Sign(b.coef[1])
          /\ Mul(Mul(a.coef, a.coef), a.rad) = Mul(Mul(b.coef, b.coef), b.rad)

(* np.dot of two vectors *)
RECURSIVE DotUpTo(_, _, _)
DotUpTo(u, v, k) ==
  IF k = 0 THEN Zero ELSE Add(DotUpTo(u, v, k - 1), Mul(u[k], v[k]))

Dot(u, v) == DotUpTo(u, v, Len(u))

(* np.dot(cov_matrix, weights) *)
MatVec(m, v) == [i \in 1..Len(m) |-> Dot(m[i], v)]

(* np.sum *)
RECURSIVE SumUpTo(_, _)
SumUpTo(v, k) == IF k = 0 THEN Zero ELSE Add(SumUpTo(v, k - 1), v[k])

Sum(v) == SumUpTo(v, Len(v))

(* ------------------------------ pandas -------------------------------- *)
\* a DataFrame is [columns |-> labels, rows |-> sequence of rows of floats]
EmptyFrame == [columns |-> <<>>, rows |-> <<>>]

NoNaN(row) == \A j \in 1..Len(row) : ~IsNaN(row[j])

\* DataFrame.ffill: a missing cell takes the last value above it
RECURSIVE ffill(_, _)
ffill(rows, t) ==
  IF t = 0 THEN <<>>
  ELSE LET above == ffill(rows, t - 1)
       IN  Append(above,
                  [j \in 1..Len(rows[t]) |->
                     IF IsNaN(rows[t][j]) /\ t > 1 THEN above[t - 1][j]
                     ELSE rows[t][j]])

\* DataFrame.pct_change(): data / data.shift(1) - 1, where data is the frame
\* forward filled (fill_method = "pad", the default up to pandas 2) or the
\* frame itself (fill_method = None, the default from pandas 3)
pct_change(df, fill) ==
  LET data == IF fill = "pad" THEN ffill(df.rows, Len(df.rows)) ELSE df.rows
  IN  [columns |-> df.columns,
       rows |-> [t \in 1..Len(data) |->
                   [j \in 1..Len(df.columns) |->
                      IF t = 1 THEN NaN
                      ELSE Sub(Div(data[t][j], data[t - 1][j]), One)]]]

\* DataFrame.dropna(): the rows without a missing cell
dropna(df) == [columns |-> df.columns, rows |-> SelectSeq(df.rows, NoNaN)]

RECURSIVE ColSum(_, _, _)
ColSum(rows, j, t) ==
  IF t = 0 THEN Zero ELSE Add(ColSum(rows, j, t - 1), rows[t][j])

\* DataFrame.mean(): a Series indexed by the column labels
mean(df) ==
  [index |-> df.columns,
   values |-> [j \in 1..Len(df.columns) |->
                 Div(ColSum(df.rows, j, Len(df.rows)), <<Len(df.rows), 1>>)]]

RECURSIVE CoSum(_, _, _, _, _)
CoSum(rows, avg, i, j, t) ==
  IF t = 0 THEN Zero
  ELSE Add(CoSum(rows, avg, i, j, t - 1),
           Mul(Sub(rows[t][i], avg[i]), Sub(rows[t][j], avg[j])))

\* DataFrame.cov(): np.cov with ddof = 1; numpy clamps the degrees of freedom
\* at 0 and multiplies by 1/fact
cov(df) ==
  LET m == Len(df.rows)
      avg == mean(df).values
      fact == IF m - 1 <= 0 THEN 0 ELSE m - 1
  IN  [index |-> df.columns,
       values |-> [i \in 1..Len(df.columns) |->
                     [j \in 1..Len(df.columns) |->
                        Mul(CoSum(df.rows, avg, i, j, m),
                            Div(One, <<fact, 1>>))]]]

\* Series * 365
ScaleSeries(s, k) ==
  [index |-> s.index,
   values |-> [j \in 1..Len(s.values) |-> Mul(s.values[j], <<k, 1>>)]]

\* DataFrame * 365
ScaleMatrix(c, k) ==
  [index |-> c.index,
   values |-> [i \in 1..Len(c.values) |->
                 [j \in 1..Len(c.values) |-> Mul(c.values[i][j], <<k, 1>>)]]]

(* ------------------------- the random generator ----------------------- *)
\* the state of numpy's global random generator (np.random)
VARIABLE rng

(* ---------------------------- the functions --------------------------- *)
RECURSIVE SortedSeq(_)
SortedSeq(S) ==
  IF S = {} THEN <<>>
  ELSE LET lo == CHOOSE a \in S : \A b \in S : a <= b
       IN  <<lo>> \o SortedSeq(S \ {lo})

Range(s) == {s[i] : i \in 1..Len(s)}

\* yf.download(tickers, ...)['Adj Close']: one column per requested ticker,
\* the columns in sorted order, one row per date the provider has; a cell
\* the provider has no price for is NaN.  quotes[a] is the price history
\* the provider holds for ticker a.
yf_download(tickers, quotes) ==
  LET cols == SortedSeq(Range(tickers))
      days == IF tickers = <<>> THEN 0 ELSE Len(quotes[tickers[1]])
  IN  [columns |-> cols,
       rows |-> [t \in 1..days |-> [j \in 1..Len(cols) |-> quotes[cols[j]][t]]]]

get_price_data(tickers, quotes) == yf_download(tickers, quotes)

\* calculate_returns, line 17
daily_returns(price_data, fill) == dropna(pct_change(price_data, fill))

\* calculate_returns: <<mean_returns, cov_matrix>>
calculate_returns(price_data, fill) ==
  LET returns == daily_returns(price_data, fill)
  IN  <<ScaleSeries(mean(returns), AnnualFactor),
        ScaleMatrix(cov(returns), AnnualFactor)>>

portfolio_volatility(weights, mean_returns, cov_matrix) ==
  Sqrt(Dot(weights, MatVec(cov_matrix.values, weights)))

\* risk_free_rate = 0.04
RiskFreeRate == Norm(4, 100)

neg_sharpe_ratio(weights, mean_returns, cov_matrix, risk_free_rate) ==
  LET portfolio_return == Dot(weights, mean_returns.values)
      volatility == Sqrt(Dot(weights, MatVec(cov_matrix.values, weights)))
  IN  NegRoot(DivRoot(Sub(portfolio_return, risk_free_rate), volatility))

\* the points of the simplex grid, in a fixed order
RECURSIVE Simplex(_, _), SimplexFrom(_, _, _)
Simplex(n, total) ==
  IF n = 1 THEN << <<total>> >> ELSE SimplexFrom(n, total, 0)

\* the points whose first coordinate is at least k
SimplexFrom(n, total, k) ==
  IF k > total THEN <<>>
  ELSE LET rest == Simplex(n - 1, total - k)
       IN  [i \in 1..Len(rest) |-> <<k>> \o rest[i]]
           \o SimplexFrom(n, total, k + 1)

\* np.random.dirichlet(np.ones(num_assets)) in generator state rng
dirichlet(num_assets, state) ==
  LET points == Simplex(num_assets, GridDen)
      k == points[(state % Len(points)) + 1]
  IN  [i \in 1..num_assets |-> Norm(k[i], GridDen)]

\* the generator state after one draw
rng_next(state) == (state + 1) % RngMod

\* a start drawn from the global random generator
random_initial_weights(num_assets) ==
  IF num_assets = 0 THEN <<>> ELSE dirichlet(num_assets, rng)

\* num_assets * [1. / num_assets, ]
initial_weights(num_assets) == [i \in 1..num_assets |-> Norm(1, num_assets)]

\* the call without constraints=constraints
unconstrained_call(tickers, mean_returns, cov_matrix) ==
  LET num_assets == Len(tickers)
  IN  [fun |-> "neg_sharpe_ratio",
       x0 |-> [i \in 1..num_assets |-> Norm(1, num_assets)],
       args |-> <<mean_returns, cov_matrix, Norm(4, 100)>>,
       method |-> "SLSQP",
       bounds |-> [i \in 1..num_assets |-> <<Zero, One>>],
       constraints |-> <<>>]

\* the arguments optimize_portfolio passes to scipy.optimize.minimize
minimize_call(tickers, mean_returns, cov_matrix) ==
  LET num_assets == Len(tickers)
  IN  [fun |-> "neg_sharpe_ratio",
       x0 |-> initial_weights(num_assets),
       args |-> <<mean_returns, cov_matrix, RiskFreeRate>>,
       method |-> "SLSQP",
       bounds |-> [i \in 1..num_assets |-> <<Zero, One>>],
       constraints |-> <<[type |-> "eq", fun |-> "sum(x) - 1"]>>]

\* the value of the objective of a call of minimize at x
objective(call, x) ==
  neg_sharpe_ratio(x, call.args[1], call.args[2], call.args[3])

\* line 40: lambda x: np.sum(x) - 1
constraint_fun(x) == Sub(Sum(x), One)

\* x lies in the bounds of the call and meets its equality constraints
MeetsConstraints(call, x) ==
  /\ \A k \in 1..Len(call.bounds) :
       Leq(call.bounds[k][1], x[k]) /\ Leq(x[k], call.bounds[k][2])
  /\ \A c \in 1..Len(call.constraints) :
       call.constraints[c].type = "eq" => constraint_fun(x) = Zero

\* the points the solver can stop at: on the grid, up to one step outside
\* [0, 1], and meeting the bounds and the constraints it was given (SLSQP
\* keeps its iterates in the bounds, and on a linear equality constraint that
\* its start meets)
Iterates(call) ==
  {x \in [1..Len(call.x0) -> {Norm(k, GridDen) : k \in (-1)..(GridDen + 1)}] :
     MeetsConstraints(call, x)}

\* what scipy.optimize.minimize(method='SLSQP') can hand back for a call:
\* success = True at a point meeting the constraints; or success = False
\* (iteration limit, failed line search) at its last iterate, which is NaN
\* when the objective is not finite at a point it evaluated
minimize(call) ==
  LET n == Len(call.x0)
      stops == Iterates(call)
  IN  {[x |-> x, success |-> TRUE] : x \in stops}
      \cup {[x |-> x, success |-> FALSE] : x \in stops}
      \cup (IF \A x \in stops \cup {call.x0} :
                  IsFinite(objective(call, x).coef)
            THEN {}
            ELSE {[x |-> [k \in 1..n |-> NaN], success |-> FALSE]})

\* one pass of the sampling loop, lines 68-75: the column of results
frontier_point(weights, mean_returns, cov_matrix) ==
  LET portfolio_return == Dot(weights, mean_returns.values)
      volatility == Sqrt(Dot(weights, MatVec(cov_matrix.values, weights)))
      sharpe_ratio == DivRoot(portfolio_return, volatility)
  IN  <<portfolio_return, volatility, sharpe_ratio>>

(* ------------------------------- state -------------------------------- *)
VARIABLES
  run,            \* which run of the program this is
  literal,        \* the ticker list as written in main, lines 112-145
  quotes,         \* the price history the provider holds for each ticker
  fill_method,    \* the default fill_method of the installed pandas
  pc,             \* the statement of main that runs next
  tickers,        \* main: tickers
  price_data,     \* main: price_data
  returns,        \* calculate_returns: returns
  mean_returns,   \* main: mean_returns
  cov_matrix,     \* main: cov_matrix
  problem,        \* the arguments of the last call of minimize
  slsqp,          \* what the solver answers to each problem it was given
  optimal,        \* main: optimal
  printed,        \* the "ticker: weight" lines printed so far
  shown,          \* the figures shown so far
  i,              \* plot_efficient_frontier: i
  weights,        \* plot_efficient_frontier: weights
  results,        \* plot_efficient_frontier: results, one column per sample
  prev            \* what the previous run computed

vars ==
  <<run, literal, quotes, fill_method, rng, pc, tickers, price_data, returns,
    mean_returns, cov_matrix, problem, slsqp, optimal, printed, shown, i,
    weights, results, prev>>

(* --------------------------- initial states --------------------------- *)
EmptySeries == [index |-> <<>>, values |-> <<>>]

NaNRoot == [coef |-> NaN, rad |-> One]

ZeroRoot == [coef |-> Zero, rad |-> One]

NoResult == [x |-> <<>>, success |-> FALSE, fun |-> NaNRoot]

NoCall == minimize_call(<<>>, EmptySeries, EmptySeries)

NoRun ==
  [tickers |-> <<>>, mean_returns |-> EmptySeries, cov_matrix |-> EmptySeries,
   problem |-> NoCall, optimal |-> NoResult, results |-> <<>>]

\* the ticker lists main may be written with: no ticker twice
TickerLists ==
  {s \in UNION {[1..n -> 1..MaxAssets] : n \in 1..MaxAssets} :
     \A a, b \in 1..Len(s) : a # b => s[a] # s[b]}

\* a cell of the provider's table: a price, or NaN where it has none
Cells == {Norm(p, 1) : p \in 1..MaxPrice} \cup {NaN}

\* price histories over HistoryDates dates: the price of ticker a is 1 but
\* for a spike to MaxPrice at the date a + 1; or the provider has no data
\* for the ticker
Spike(a) ==
  [t \in 1..HistoryDates |-> IF t = a + 1 THEN Norm(MaxPrice, 1) ELSE One]

Unlisted == [t \in 1..HistoryDates |-> NaN]

Locals ==
  /\ pc = "sort"
  /\ tickers = literal
  /\ price_data = EmptyFrame
  /\ returns = EmptyFrame
  /\ mean_returns = EmptySeries
  /\ cov_matrix = EmptySeries
  /\ problem = NoCall
  /\ optimal = NoResult
  /\ printed = <<>>
  /\ shown = <<>>
  /\ i = 0
  /\ weights = <<>>
  /\ results = <<>>

\* one run, on any table the provider can return
Init ==
  /\ run = 1
  /\ literal \in TickerLists
  /\ \E d \in 0..MaxDates : quotes \in [Range(literal) -> [1..d -> Cells]]
  /\ fill_method \in {"pad", "none"}
  /\ rng \in 0..(RngMod - 1)
  /\ slsqp = <<>>
  /\ prev = NoRun
  /\ Locals

\* two runs, on the tables made of the histories above; the generator of the
\* first run starts in state 0, that of the second run in any state
InitRuns ==
  /\ run = 1
  /\ literal \in TickerLists
  /\ \E known \in SUBSET Range(literal) :
       quotes = [a \in Range(literal) |->
                   IF a \in known THEN Spike(a) ELSE Unlisted]
  /\ fill_method \in {"pad", "none"}
  /\ rng = 0
  /\ slsqp = <<>>
  /\ prev = NoRun
  /\ Locals

(* ------------------------------ actions ------------------------------- *)
\* the list left as it is written
unsorted_tickers(t) == t

\* line 146: tickers.sort()
sorted_tickers(t) == SortSeq(t, LAMBDA a, b : a < b)

main_sort ==
  /\ pc = "sort"
  /\ tickers' = sorted_tickers(tickers)
  /\ pc' = "fetch"
  /\ UNCHANGED <<run, literal, quotes, fill_method, rng, price_data, returns,
                 mean_returns, cov_matrix, problem, slsqp, optimal, printed,
                 shown, i, weights, results, prev>>

\* line 152
main_get_price_data ==
  /\ pc = "fetch"
  /\ price_data' = get_price_data(tickers, quotes)
  /\ pc' = "returns"
  /\ UNCHANGED <<run, literal, quotes, fill_method, rng, tickers, returns,
                 mean_returns, cov_matrix, problem, slsqp, optimal, printed,
                 shown, i, weights, results, prev>>

\* line 155
main_calculate_returns ==
  /\ pc = "returns"
  /\ returns' = daily_returns(price_data, fill_method)
  /\ mean_returns' = calculate_returns(price_data, fill_method)[1]
  /\ cov_matrix' = calculate_returns(price_data, fill_method)[2]
  /\ pc' = "optimize"
  /\ UNCHANGED <<run, literal, quotes, fill_method, rng, tickers, price_data,
                 problem, slsqp, optimal, printed, shown, i, weights, results,
                 prev>>

\* lines 35-52: the result of minimize is returned as it is
optimize_portfolio(t, mu, sigma, answer) ==
  [x |-> answer.x,
   success |-> answer.success,
   fun |-> neg_sharpe_ratio(answer.x, mu, sigma, RiskFreeRate)]

\* line 158; the solver is a function: it answers a problem it was given
\* before as it answered then
main_optimize_portfolio ==
  /\ pc = "optimize"
  /\ LET call == minimize_call(tickers, mean_returns, cov_matrix)
     IN  /\ problem' = call
         /\ \E answer \in (IF call \in DOMAIN slsqp THEN {slsqp[call]}
                           ELSE minimize(call)) :
              /\ slsqp' = (call :> answer) @@ slsqp
              /\ optimal' = optimize_portfolio(tickers, mean_returns,
                                               cov_matrix, answer)
  /\ pc' = "report"
  /\ UNCHANGED <<run, literal, quotes, fill_method, rng, tickers, price_data,
                 returns, mean_returns, cov_matrix, printed, shown, i, weights,
                 results, prev>>

\* lines 166-173 and 78-85: the optimum is drawn at (volatility, return)
optimum_figure(name, w, mu, sigma) ==
  [figure |-> name,
   at |-> <<portfolio_volatility(w, mu, sigma), Dot(w, mu.values)>>]

\* lines 161-163: one line per ticker
report_lines(t, opt) == [k \in 1..Len(t) |-> <<t[k], opt.x[k]>>]

\* lines 161-178: the weights are printed and the optimum is plotted
main_report ==
  /\ pc = "report"
  /\ printed' = report_lines(tickers, optimal)
  /\ shown' = Append(shown, optimum_figure("optimum", optimal.x, mean_returns,
                                            cov_matrix))
  /\ pc' = "frontier"
  /\ UNCHANGED <<run, literal, quotes, fill_method, rng, tickers, price_data,
                 returns, mean_returns, cov_matrix, problem, slsqp, optimal,
                 i, weights, results, prev>>

\* lines 62-65: results = np.zeros((3, num_portfolios))
frontier_begin ==
  /\ pc = "frontier"
  /\ results' = [k \in 1..NumPortfolios |-> <<Zero, ZeroRoot, ZeroRoot>>]
  /\ i' = 0
  /\ pc' = "sampling"
  /\ UNCHANGED <<run, literal, quotes, fill_method, rng, tickers, price_data,
                 returns, mean_returns, cov_matrix, problem, slsqp, optimal,
                 printed, shown, weights, prev>>

\* lines 67-75: one pass of the loop
frontier_sample ==
  /\ pc = "sampling"
  /\ i < NumPortfolios
  /\ LET w == dirichlet(Len(mean_returns.values), rng)
     IN  /\ weights' = w
         /\ results' = [results EXCEPT
                          ![i + 1] = frontier_point(w, mean_returns, cov_matrix)]
  /\ rng' = rng_next(rng)
  /\ i' = i + 1
  /\ UNCHANGED <<run, literal, quotes, fill_method, pc, tickers, price_data,
                 returns, mean_returns, cov_matrix, problem, slsqp, optimal,
                 printed, shown, prev>>

\* lines 77-92
frontier_plot ==
  /\ pc = "sampling"
  /\ i = NumPortfolios
  /\ shown' = Append(shown, optimum_figure("frontier", optimal.x, mean_returns,
                                            cov_matrix))
  /\ pc' = "done"
  /\ UNCHANGED <<run, literal, quotes, fill_method, rng, tickers, price_data,
                 returns, mean_returns, cov_matrix, problem, slsqp, optimal,
                 printed, i, weights, results, prev>>

\* lines 183-184: the program is run again, on the same list and the same
\* provider data; a new process seeds the global generator anew
Rerun ==
  /\ pc = "done"
  /\ run = 1
  /\ run' = 2
  /\ prev' = [tickers |-> tickers, mean_returns |-> mean_returns,
              cov_matrix |-> cov_matrix, problem |-> problem,
              optimal |-> optimal, results |-> results]
  /\ rng' \in 0..(RngMod - 1)
  /\ pc' = "sort"
  /\ tickers' = literal
  /\ price_data' = EmptyFrame
  /\ returns' = EmptyFrame
  /\ mean_returns' = EmptySeries
  /\ cov_matrix' = EmptySeries
  /\ problem' = NoCall
  /\ optimal' = NoResult
  /\ printed' = <<>>
  /\ shown' = <<>>
  /\ i' = 0
  /\ weights' = <<>>
  /\ results' = <<>>
  /\ UNCHANGED <<literal, quotes, fill_method, slsqp>>

Next ==
  \/ main_sort
  \/ main_get_price_data
  \/ main_calculate_returns
  \/ main_optimize_portfolio
  \/ main_report
  \/ frontier_begin
  \/ frontier_sample
  \/ frontier_plot

NextRuns ==
  \/ Next
  \/ Rerun

Spec == Init /\ [][Next]_vars

SpecRuns == InitRuns /\ [][NextRuns]_vars

(* ------------------------------ claims -------------------------------- *)
\* optimize_portfolio has returned to main
Returned == pc \in {"report", "frontier", "sampling", "done"}

\* calculate_returns has returned to main
Computed == pc = "optimize" \/ Returned

\* the tolerance 1e-6
Tolerance == Norm(1, 1000000)

\* w sums to 1 and every component lies in [0, 1], within the tolerance
WithinConstraints(w) ==
  /\ Leq(AbsF(Sub(Sum(w), One)), Tolerance)
  /\ \A k \in 1..Len(w) :
       Leq(Neg(Tolerance), w[k]) /\ Leq(w[k], Add(One, Tolerance))

\* the matrix without row 1 and column j
Minor(m, j) ==
  [a \in 1..(Len(m) - 1) |->
     [b \in 1..(Len(m) - 1) |-> m[a + 1][IF b < j THEN b ELSE b + 1]]]

RECURSIVE Det(_), DetFrom(_, _)
Det(m) == IF Len(m) = 1 THEN m[1][1] ELSE DetFrom(m, 1)

\* the terms j.. of the expansion of the determinant along row 1
DetFrom(m, j) ==
  IF j > Len(m) THEN Zero
  ELSE Add(Mul(Mul(<<IF j % 2 = 1 THEN 1 ELSE -1, 1>>, m[1][j]),
               Det(Minor(m, j))),
           DetFrom(m, j + 1))

\* an asset of variance zero, or a determinant of zero
Singular(c) ==
  /\ Len(c.values) >= 1
  /\ \/ \E k \in 1..Len(c.values) : Eq(c.values[k][k], Zero)
     \/ Eq(Det([a \in 1..Len(c.values) |->
                  [b \in 1..Len(c.values) |->
                     Div(c.values[a][b], <<AnnualFactor, 1>>)]]), Zero)

\* finite mean returns and a finite covariance matrix that is not singular
ValidInputs(mu, sigma) ==
  /\ Len(mu.values) >= 1
  /\ \A a \in 1..Len(mu.values) : IsFinite(mu.values[a])
  /\ \A a, b \in 1..Len(sigma.values) : IsFinite(sigma.values[a][b])
  /\ ~Singular(sigma)

C2_ReportOnlyAfterSuccess ==
  (printed # <<>> \/ shown # <<>>) => optimal.success

\* C3: a result of a solver that did not converge is never returned to main:
\* the call fails instead.
C3_FailureNotReturned == pc = "report" => optimal.success

\* a and b are the same value
SameRoot(a, b) == (IsNaN(a.coef) /\ IsNaN(b.coef)) \/ EqRoot(a, b)

\* the variance of the portfolio of weights w
Variance(w) == Dot(w, MatVec(cov_matrix.values, w))

\* C4: the Sharpe ratio stored for a sample is -neg_sharpe_ratio of its
\* weights with the risk free rate of the optimizer (stated for the samples
\* of finite return and finite volatility above zero).
C4_StoredSharpe ==
  (/\ pc = "sampling"
   /\ i >= 1
   /\ IsFinite(Dot(weights, mean_returns.values))
   /\ IsFinite(Variance(weights))
   /\ Variance(weights)[1] > 0) =>
     SameRoot(results[i][3],
              NegRoot(neg_sharpe_ratio(weights, mean_returns, cov_matrix,
                                       RiskFreeRate)))

\* C5: the solver is never called with a singular covariance matrix.
C5_SingularNotSolved == Returned => ~Singular(problem.args[2])

\* the dates of a table with a price for every asset
Aligned(df) == Len(dropna(df).rows)

\* C6: calculate_returns returns nothing to main when fewer than 2 dates
\* have a price for every asset.
C6_InsufficientDataFails == Computed => Aligned(price_data) >= 2

\* C7: two invocations of the sampler on the same mean returns and covariance
\* matrix produce the same points.
C7_SamplerReproducible ==
  (/\ run = 2
   /\ pc = "done"
   /\ mean_returns = prev.mean_returns
   /\ cov_matrix = prev.cov_matrix) => results = prev.results

C9_GapsDroppedFirst ==
  (Computed /\ Aligned(price_data) >= 2) =>
     /\ Len(returns.rows) = Aligned(price_data) - 1
     /\ returns.rows = Tail(pct_change(dropna(price_data), fill_method).rows)

\* C10: the weight printed next to tickers[k] is optimal.x[k], the weight of
\* the asset of mean_returns[k] and of row and column k of cov_matrix, and
\* there are as many weights as assets in mean_returns and cov_matrix.
C10_CanonicalIndex ==
  printed # <<>> =>
     /\ Len(printed) = Len(mean_returns.values)
     /\ Len(printed) = Len(cov_matrix.values)
     /\ Len(printed) = Len(optimal.x)
     /\ \A k \in 1..Len(printed) :
          /\ printed[k][1] = mean_returns.index[k]
          /\ printed[k][1] = cov_matrix.index[k]
          /\ printed[k][2] = optimal.x[k]
          /\ Len(cov_matrix.values[k]) = Len(printed)

\* the weights were printed for a list written out of order in main, one of
\* whose tickers the provider has no data for
C10_Witness ==
  /\ printed # <<>>
  /\ Len(literal) = 2
  /\ literal[1] > literal[2]
  /\ quotes[literal[1]] = Unlisted
  /\ quotes[literal[2]] = Spike(literal[2])

=============================================================================
